---- MODULE Spec2Model ----
(***************************************************************************)
(* PR Agent: clone a repository, run its tests, choose a patch (the        *)
(* deterministic fallback patch, else a patch asked of the Anthropic API),  *)
(* apply it, re-run the tests and, when they pass, create a branch, commit, *)
(* push and create a pull request.                                          *)
(*                                                                         *)
(* Modules modelled (the newest revision of each that the sources hold):   *)
(*   agent.js      run, executeWithPatch, cloneRepository                  *)
(*   planner.js    getFallbackPatch, getLLMPatch, generatePlan,            *)
(*                 findRelevantFiles                                       *)
(*   verifier.js   detectTestCommand, runTests                             *)
(*   executor.js   readFile, applyChanges                                  *)
(*   publisher.js  createBranch, commitChanges, pushBranch, getRepoInfo,   *)
(*                 createPullRequestActual (the GitHub API revision)       *)
(*   cli.js        main: the exit status for the result of run()           *)
(*   server.js     determineStatus, runAgent: the response to POST /run    *)
(*                                                                         *)
(* Text is a sequence of one-character strings.  Subprocesses, the file    *)
(* system and the two HTTP services are the environment: each call draws   *)
(* its outcome from the outcomes the call can have.                        *)
(***************************************************************************)
EXTENDS Integers, Sequences, FiniteSets, TLC

\* ------------------------------------------------------------------ bounds
MaxContentLen == 3      \* longest file content
MaxFragLen == 2         \* longest oldCode / newCode

\* ------------------------------------------------------------- text values
ContentChars == {"a", "b"}
NewChars == {"a", "$", "&"}

SeqsUpTo(S, n) == UNION {[1..k -> S] : k \in 0..n}

Contents == SeqsUpTo(ContentChars, MaxContentLen)
OldCodes == SeqsUpTo(ContentChars, MaxFragLen) \ {<<>>}
NewCodes == SeqsUpTo(NewChars, MaxFragLen) \ {<<>>}

\* String.prototype.indexOf(t): 0-based index of the first occurrence, -1 if none
OccursAt(s, t, i) == /\ i + Len(t) <= Len(s)
                     /\ SubSeq(s, i + 1, i + Len(t)) = t
IndexOf(s, t) ==
  IF \E i \in 0..Len(s) : OccursAt(s, t, i)
    THEN CHOOSE i \in 0..Len(s) :
           /\ OccursAt(s, t, i)
           /\ \A j \in 0..(i - 1) : ~OccursAt(s, t, j)
    ELSE -1

\* GetSubstitution of String.prototype.replace for a string pattern (no
\* captures): "$$" is "$", "$&" is the matched text, any other "$" is literal.
RECURSIVE GetSubstitution(_, _)
GetSubstitution(matched, repl) ==
  IF repl = <<>> THEN <<>>
  ELSE IF Head(repl) = "$" /\ Len(repl) >= 2 /\ repl[2] = "$"
    THEN <<"$">> \o GetSubstitution(matched, Tail(Tail(repl)))
  ELSE IF Head(repl) = "$" /\ Len(repl) >= 2 /\ repl[2] = "&"
    THEN matched \o GetSubstitution(matched, Tail(Tail(repl)))
  ELSE <<Head(repl)>> \o GetSubstitution(matched, Tail(repl))

\* a mutant of StringReplace: every occurrence is replaced (replaceAll)
RECURSIVE StringReplaceAll(_, _, _)
StringReplaceAll(content, oldCode, newCode) ==
  LET i == IndexOf(content, oldCode) IN
  IF i = -1 THEN content
  ELSE SubSeq(content, 1, i) \o GetSubstitution(oldCode, newCode)
       \o StringReplaceAll(SubSeq(content, i + Len(oldCode) + 1, Len(content)),
                           oldCode, newCode)

\* content.replace(oldCode, newCode) with a string pattern: first occurrence only
StringReplace(content, oldCode, newCode) ==
  LET i == IndexOf(content, oldCode) IN
  IF i = -1 THEN content
  ELSE SubSeq(content, 1, i) \o GetSubstitution(oldCode, newCode)
       \o SubSeq(content, i + Len(oldCode) + 1, Len(content))

\* ------------------------------------------------------------- executor.js
\* a file of the repository copy: present with a content, or missing
NoFile == [exists |-> FALSE, content |-> <<>>]
File(c) == [exists |-> TRUE, content |-> c]
Files == {File(c) : c \in Contents} \cup {NoFile}

\* a mutant of ApplyChanges: the missing fragment is not checked, the file is
\* rewritten and the call returns
ApplyChangesUnchecked(file, oldCode, newCode) ==
  IF ~file.exists
    THEN [threw |-> TRUE, message |-> "Failed to read file", wrote |-> FALSE,
          file |-> file]
    ELSE [threw |-> FALSE, message |-> "", wrote |-> TRUE,
          file |-> File(StringReplace(file.content, oldCode, newCode))]

\* applyChanges(filePath, oldCode, newCode): the outcome and the file afterwards
ApplyChanges(file, oldCode, newCode) ==
  IF ~file.exists
    THEN [threw |-> TRUE, message |-> "Failed to read file", wrote |-> FALSE,
          file |-> file]
  ELSE IF IndexOf(file.content, oldCode) = -1
    THEN [threw |-> TRUE, message |-> "Old code not found in file",
          wrote |-> FALSE, file |-> file]
    ELSE [threw |-> FALSE, message |-> "", wrote |-> TRUE,
          file |-> File(StringReplace(file.content, oldCode, newCode))]

\* ------------------------------------------------------------- verifier.js
\* package.json of the repository copy, as detectTestCommand sees it
Manifests == {"absent", "unreadable", "unparseable", "noscript", "script"}
NoCommand == "null"

\* a mutant of DetectTestCommand: any manifest that parses gives the command
DetectTestCommandAnyScript(man) ==
  IF man \in {"script", "noscript"} THEN "npm test" ELSE NoCommand

\* detectTestCommand(repoPath)
DetectTestCommand(man) == IF man = "script" THEN "npm test" ELSE NoCommand

\* what execSync(testCommand) can do: return stdout (exit status 0), throw with
\* the captured stdout and stderr (non-zero exit), or throw without having run
\* the command (error.stdout and error.stderr are undefined)
ProcOutcomes ==
  {[kind |-> "exit0", stdout |-> "o1", stderr |-> ""],
   [kind |-> "nonzero", stdout |-> "o1", stderr |-> "e1"],
   [kind |-> "nonzero", stdout |-> "o2", stderr |-> "e1"],
   [kind |-> "spawnfail", stdout |-> "undefined", stderr |-> "undefined"]}
NoProc == [kind |-> "none", stdout |-> "", stderr |-> ""]

NoTestResult ==
  [threw |-> FALSE, success |-> FALSE, output |-> <<>>, command |-> "unset",
   spawned |-> FALSE]

\* a mutant of RunTests: the catch block is missing, a failing command throws
RunTestsNoCatch(man, proc) ==
  LET cmd == DetectTestCommand(man) IN
  IF cmd = NoCommand
    THEN [threw |-> FALSE, success |-> FALSE,
          output |-> <<"No test command found">>, command |-> NoCommand,
          spawned |-> FALSE]
  ELSE IF proc.kind = "exit0"
    THEN [threw |-> FALSE, success |-> TRUE, output |-> <<proc.stdout>>,
          command |-> cmd, spawned |-> TRUE]
    ELSE [threw |-> TRUE, success |-> FALSE, output |-> <<>>,
          command |-> cmd, spawned |-> TRUE]

\* runTests(repoPath): the TestResult returned (threw: the call threw instead)
RunTests(man, proc) ==
  LET cmd == DetectTestCommand(man) IN
  IF cmd = NoCommand
    THEN [threw |-> FALSE, success |-> FALSE,
          output |-> <<"No test command found">>, command |-> NoCommand,
          spawned |-> FALSE]
  ELSE IF proc.kind = "exit0"
    THEN [threw |-> FALSE, success |-> TRUE, output |-> <<proc.stdout>>,
          command |-> cmd, spawned |-> TRUE]
    ELSE [threw |-> FALSE, success |-> FALSE,
          output |-> <<proc.stdout, "\n", proc.stderr>>,
          command |-> cmd, spawned |-> TRUE]

\* the outcomes of the test process that runTests can meet for a manifest
ProcsFor(man) == IF DetectTestCommand(man) = NoCommand THEN {NoProc} ELSE ProcOutcomes

\* -------------------------------------------------------------- planner.js
\* a path: absolute or not, and what its relative part names
NoPath == [absolute |-> FALSE, rel |-> "none"]
\* cloneRepository: repoPath is '/tmp/pr-agent-work/' + name + '-' + time + '/' + name
RepoPath == [absolute |-> TRUE, rel |-> "repo"]
\* path.join(base, rel) for a relative rel (and base + '/' + rel): join
\* normalizes, so a rel made of '..' segments comes out as a path that is not
\* under base
JoinPath(base, rel) ==
  IF rel = "dotdot"
    THEN [absolute |-> base.absolute, rel |-> "outside"]
    ELSE [absolute |-> base.absolute, rel |-> rel]

NoPatch == [source |-> "none", file |-> NoPath, oldCode |-> <<>>,
            newCode |-> <<>>, summary |-> <<>>]

\* the hard-coded patch of getFallbackPatch (its two text constants, shortened)
FallbackOldCode == <<"a", "b">>
\* its summary: plain words, no character the shell treats specially
FallbackSummary == <<"s", "s">>
FallbackNewCode == <<"b", "a">>
FallbackPatch ==
  [source |-> "fallback", file |-> JoinPath(RepoPath, "target"),
   oldCode |-> FallbackOldCode, newCode |-> FallbackNewCode,
   summary |-> FallbackSummary]

\* getFallbackPatch(repoPath, goal): marker is goal.indexOf('utils/date.js') !== -1,
\* file is utils/date.js of the repository copy (read before the patch is built)
GetFallbackPatch(marker, file) ==
  IF marker
    THEN IF file.exists
           THEN [kind |-> "patch", patch |-> FallbackPatch]
           ELSE [kind |-> "threw", patch |-> NoPatch]
    ELSE [kind |-> "null", patch |-> NoPatch]

\* What findRelevantFiles meets: the path token of the goal names an existing
\* file, an existing directory, or nothing that exists; otherwise the walk of
\* the repository copy lists jsFiles .js files or throws (statSync, readdirSync).
\* listFiles never descends into a directory named node_modules or .git, so
\* every listed file is outside those directories; substr of the listed files
\* have 'node_modules' or '.git' somewhere in their full path all the same
\* (.github/release.js, a repository called site.github.io).
\* readable: readFile can read what was found.
MaxJsFiles == 6
\* no .js file, one, or more than slice(0, 5) keeps
JsFileCounts == {0, 1, MaxJsFiles}
Shapes ==
  {[mentioned |-> "file", walk |-> "ok", jsFiles |-> 0, substr |-> 0,
    readable |-> TRUE],
   [mentioned |-> "dir", walk |-> "ok", jsFiles |-> 0, substr |-> 0,
    readable |-> FALSE],
   [mentioned |-> "none", walk |-> "throws", jsFiles |-> 0, substr |-> 0,
    readable |-> FALSE],
   [mentioned |-> "none", walk |-> "ok", jsFiles |-> 1, substr |-> 0,
    readable |-> FALSE],
   [mentioned |-> "none", walk |-> "ok", jsFiles |-> 1, substr |-> 1,
    readable |-> TRUE]}
  \cup {[mentioned |-> "none", walk |-> "ok", jsFiles |-> n, substr |-> 0,
          readable |-> TRUE] : n \in JsFileCounts}
UnreadShape == [mentioned |-> "unread", walk |-> "unread", jsFiles |-> 0,
                substr |-> 0, readable |-> FALSE]

\* relevantFiles.slice(0, 5)
SliceLimit == 5
Min(a, b) == IF a < b THEN a ELSE b

\* a mutant of FindRelevantFiles: the list of .js files is not cut to five
FindRelevantFilesNoSlice(shape) ==
  IF shape.mentioned = "file"
    THEN [threw |-> FALSE, count |-> 1, readable |-> TRUE]
  ELSE IF shape.mentioned = "dir"
    THEN [threw |-> FALSE, count |-> 1, readable |-> FALSE]
  ELSE IF shape.walk = "throws"
    THEN [threw |-> TRUE, count |-> 0, readable |-> FALSE]
    ELSE [threw |-> FALSE, count |-> shape.jsFiles - shape.substr,
          readable |-> shape.readable]

\* findRelevantFiles(repoPath, goal): the candidates (count, and whether the
\* first one can be read as a file), or threw. The filter drops every listed
\* path with indexOf('node_modules') or indexOf('.git') other than -1.
FindRelevantFiles(shape) ==
  IF shape.mentioned = "file"
    THEN [threw |-> FALSE, count |-> 1, readable |-> TRUE]
  ELSE IF shape.mentioned = "dir"
    THEN [threw |-> FALSE, count |-> 1, readable |-> FALSE]
  ELSE IF shape.walk = "throws"
    THEN [threw |-> TRUE, count |-> 0, readable |-> FALSE]
    ELSE [threw |-> FALSE,
          count |-> Min(shape.jsFiles - shape.substr, SliceLimit),
          readable |-> shape.readable]

\* a plan: how many files it lists, how many of them have an entry in
\* fileContents, the test output and the goal it was made for (of the goal text
\* the model keeps whether it holds 'utils/date.js')
NoPlan == [threw |-> FALSE, files |-> 0, contents |-> 0, testOutput |-> <<>>,
           goal |-> "none"]
PlanThrew == [NoPlan EXCEPT !.threw = TRUE]
Plan(count, goal, testOutput) ==
  [threw |-> FALSE, files |-> count, contents |-> count,
   testOutput |-> testOutput, goal |-> goal]

\* a mutant of GeneratePlan: the check for an empty candidate list is missing
GeneratePlanNoCheck(shape, goal, testOutput) ==
  LET found == FindRelevantFiles(shape) IN
  IF found.threw THEN PlanThrew
  ELSE IF found.count > 0 /\ ~found.readable THEN PlanThrew
  ELSE Plan(found.count, goal, testOutput)

\* generatePlan(repoPath, goal, testOutput): a plan, or threw (no candidate, or
\* readFile of a candidate threw)
GeneratePlan(shape, goal, testOutput) ==
  LET found == FindRelevantFiles(shape) IN
  IF found.threw THEN PlanThrew
  ELSE IF found.count = 0 THEN PlanThrew
  ELSE IF ~found.readable THEN PlanThrew
  ELSE Plan(found.count, goal, testOutput)

\* getLLMPatch, the part the Promise executor runs before any request is sent:
\* "null" resolves null, "rejected" is a throw inside the executor, "request"
\* sends the request
LLMPrecheck(apiKey, shape) ==
  IF ~apiKey THEN "null"
  ELSE LET found == FindRelevantFiles(shape) IN
       IF found.threw THEN "rejected"
       ELSE IF found.count = 0 THEN "null"
       ELSE IF ~found.readable THEN "null"
       ELSE "request"

\* the answers of the Anthropic API that the 'end' handler tells apart: a body
\* from which no patch object comes out, and a patch object that lacks a field
\* (missing, empty or not a string) or is complete
NoObjectKinds == {"not_json", "no_content", "no_braces", "bad_inner_json"}
ObjectKinds == {"no_summary", "no_file", "no_oldCode", "no_newCode", "complete"}
BodyKinds == NoObjectKinds \cup ObjectKinds
\* patch.file of the answer: relative to the patched file, relative to a
\* directory, relative to nothing that exists, absolute, or relative with
\* enough '..' segments to name a file that is not in the repository copy
FileKinds == {"target", "directory", "missing", "absolute", "dotdot"}
LLMNewCodes == {<<"b">>, <<"$", "&">>}
\* the backtick character, which a TLA+ string cannot hold
Backtick == "backtick"
\* patch.summary of the answer: any non-empty string passes the validation;
\* plain words, or words with a command between backticks
PlainSummary == <<"s">>
BacktickSummary == <<"s", Backtick, "s", Backtick>>
Responses ==
  {[status |-> st, body |-> b, file |-> "none", oldCode |-> <<>>,
    newCode |-> <<>>, summary |-> <<>>] :
      st \in {200, 500}, b \in NoObjectKinds}
  \cup [status : {200}, body : ObjectKinds, file : FileKinds \ {"dotdot"},
        oldCode : OldCodes, newCode : LLMNewCodes, summary : {PlainSummary}]
  \cup [status : {200}, body : {"complete"}, file : {"dotdot"},
        oldCode : OldCodes, newCode : {<<"b">>}, summary : {PlainSummary}]
  \cup [status : {200}, body : {"complete"}, file : {"target"},
        oldCode : OldCodes, newCode : {<<"b">>}, summary : {BacktickSummary}]
  \cup [status : {500}, body : {"complete"}, file : {"target"},
        oldCode : OldCodes, newCode : LLMNewCodes, summary : {PlainSummary}]

NullPatch(reason) == [kind |-> "null", reason |-> reason, patch |-> NoPatch]

LLMPatch(resp) ==
  [kind |-> "patch", reason |-> "",
   patch |-> [source |-> "llm", file |-> JoinPath(RepoPath, resp.file),
              oldCode |-> resp.oldCode, newCode |-> resp.newCode,
              summary |-> resp.summary]]

\* a mutant of ValidateResponse: oldCode is not looked up in the file
ValidateResponseNoLookup(resp, file) ==
  IF resp.status # 200 THEN NullPatch("status")
  ELSE IF resp.body # "complete" THEN NullPatch(resp.body)
  ELSE IF resp.file = "absolute" THEN NullPatch("absolute")
  ELSE IF resp.file = "missing" \/ ~file.exists THEN NullPatch("missing")
  ELSE IF resp.file = "directory" THEN NullPatch("unreadable")
  ELSE LLMPatch(resp)

\* the 'end' handler of getLLMPatch: the value the promise is resolved with
\* (readFile throwing on a directory is caught there like a parse error)
ValidateResponse(resp, file) ==
  IF resp.status # 200 THEN NullPatch("status")
  ELSE IF resp.body # "complete" THEN NullPatch(resp.body)
  ELSE IF resp.file = "absolute" THEN NullPatch("absolute")
  ELSE IF resp.file = "missing" \/ ~file.exists THEN NullPatch("missing")
  ELSE IF resp.file = "directory" THEN NullPatch("unreadable")
  ELSE IF IndexOf(file.content, resp.oldCode) = -1 THEN NullPatch("oldCode not found")
  ELSE LLMPatch(resp)

\* what settled the request of getLLMPatch: nothing yet, the end of a response,
\* an error of the request, or the timeout (which destroys the request)
\* (of a response: its status, its body, the file it names and whether its
\* oldCode occurs in the content of the patched file)
NoEvent == [kind |-> "none", status |-> 0, body |-> "", file |-> "",
            oldFound |-> FALSE, aborted |-> FALSE]
EndEvent(resp, file) ==
  [kind |-> "end", status |-> resp.status, body |-> resp.body,
   file |-> resp.file,
   oldFound |-> /\ file.exists
                /\ \E i \in 0..Len(file.content) :
                     OccursAt(file.content, resp.oldCode, i),
   aborted |-> FALSE]
ErrorEvent == [NoEvent EXCEPT !.kind = "error"]
TimeoutEvent == [NoEvent EXCEPT !.kind = "timeout", !.aborted = TRUE]

\* ------------------------------------------------------------ publisher.js
\* what the curl call to the GitHub API can give back
ApiOutcomes == {"created", "api_error", "other_json", "not_json", "curl_failed"}
\* the options execSync is given for the curl call: there is no timeout among
\* them, and the curl command line has no --max-time either
CurlOptions == {"encoding", "stdio"}
\* The shell's reading of the word "..." that commitChanges builds around the
\* message, from position i on: a double quote closes or opens the quoting and
\* is dropped, the text between two backticks is run as a command and its
\* (empty) output put in its place, $ before a name is the expansion of an
\* unset variable, anything else is taken as it is.  failed: a backtick or a
\* double quote without its partner (sh: syntax error).
RECURSIVE ShellWord(_, _, _)
ShellWord(text, i, acc) ==
  IF i > Len(text)
    THEN [acc EXCEPT !.failed = acc.failed \/ acc.quoted]
  ELSE IF text[i] = "\""
    THEN ShellWord(text, i + 1, [acc EXCEPT !.quoted = ~acc.quoted])
  ELSE IF text[i] = Backtick
    THEN LET close == {j \in (i + 1)..Len(text) : text[j] = Backtick} IN
         IF close = {}
           THEN [acc EXCEPT !.failed = TRUE]
           ELSE LET j == CHOOSE k \in close : \A l \in close : k <= l IN
                ShellWord(text, j + 1,
                          [acc EXCEPT !.executed =
                             Append(acc.executed, SubSeq(text, i + 1, j - 1))])
  ELSE IF text[i] = "$" /\ i < Len(text) /\ text[i + 1] = "s"
    THEN LET rest == {j \in (i + 1)..Len(text) : text[j] # "s"} IN
         IF rest = {}
           THEN ShellWord(text, Len(text) + 1, acc)
           ELSE ShellWord(text, CHOOSE k \in rest : \A l \in rest : k <= l, acc)
    ELSE ShellWord(text, i + 1, [acc EXCEPT !.word = Append(acc.word, text[i])])

NoCommit == [called |-> FALSE, threw |-> FALSE, given |-> <<>>,
             message |-> <<>>, executed |-> <<>>]

\* commitChanges(repoPath, message): execSync('git commit -m "' + message + '"')
\* runs the line through the shell; gitOk: git add and git commit work
GitCommit(message, gitOk) ==
  LET sh == ShellWord(<<"\"">> \o message \o <<"\"">>, 1,
                      [quoted |-> FALSE, failed |-> FALSE, word |-> <<>>,
                       executed |-> <<>>]) IN
  [called |-> TRUE, threw |-> sh.failed \/ ~gitOk, given |-> message,
   message |-> IF sh.failed \/ ~gitOk THEN <<>> ELSE sh.word,
   executed |-> sh.executed]

\* createBranch: 'fix/' + getTimestamp()
BranchName == "fix/timestamp"
NoBody == [summary |-> <<>>, file |-> "none", before |-> <<>>, after |-> <<>>]
NoPR == [called |-> FALSE, threw |-> FALSE, token |-> FALSE, api |-> "none",
         url |-> "null", head |-> "none", title |-> <<>>, body |-> NoBody,
         message |-> ""]

\* createPRBody: the text it builds from the four parts it is given (a text is
\* a sequence of pieces; "\n" is the newline character)
PRBodyText(b) ==
  <<"## Summary", "\n", "\n">> \o b.summary \o <<"\n", "\n">>
  \o <<"## Changes", "\n", "\n">>
  \o <<"- File: ", b.file, "\n", "\n">>
  \o <<"## Test Results", "\n", "\n">>
  \o <<"### Before", "\n", "fence", "\n">> \o b.before
  \o <<"\n", "fence", "\n", "\n">>
  \o <<"### After", "\n", "fence", "\n">> \o b.after
  \o <<"\n", "fence", "\n">>

\* the three replace calls on body (on title, the first two), piece by piece:
\* a backslash becomes two, a double quote becomes backslash and double quote,
\* a newline becomes backslash and the letter n
EscapePiece(c, newlines) ==
  IF c = "\\" THEN "\\\\"
  ELSE IF c = "\"" THEN "\\\""
  ELSE IF c = "\n" /\ newlines THEN "\\n"
  ELSE c
Escape(text, newlines) ==
  [i \in 1..Len(text) |-> EscapePiece(text[i], newlines)]

\* JSON.stringify of a string value (between its quotes), piece by piece:
\* every backslash and double quote gets a backslash in front, a newline
\* becomes backslash and n
JsonStringifyPiece(c) ==
  CASE c = "\\" -> "\\\\"
    [] c = "\"" -> "\\\""
    [] c = "\n" -> "\\n"
    [] c = "\\\\" -> "\\\\\\\\"
    [] c = "\\\"" -> "\\\\\\\""
    [] c = "\\n" -> "\\\\n"
    [] OTHER -> c
JsonStringify(text) == [i \in 1..Len(text) |-> JsonStringifyPiece(text[i])]

\* the string value that the API reads out of the payload: a backslash stands
\* for the character after it (n for a newline)
JsonParsePiece(c) ==
  CASE c = "\\\\" -> "\\"
    [] c = "\\\"" -> "\""
    [] c = "\\n" -> "\n"
    [] c = "\\\\\\\\" -> "\\\\"
    [] c = "\\\\\\\"" -> "\\\""
    [] c = "\\\\n" -> "\\n"
    [] OTHER -> c
JsonParse(text) == [i \in 1..Len(text) |-> JsonParsePiece(text[i])]

\* the title and body of the pull request that the API is asked to create,
\* given the title and the parts of the body that createPullRequestActual got
Payload(title, body) ==
  [title |-> JsonParse(JsonStringify(Escape(title, FALSE))),
   body |-> JsonParse(JsonStringify(Escape(PRBodyText(body), TRUE)))]

\* createPullRequestActual(repoInfo, branchName, title, body): returns
\* prData.html_url, or throws.  What it returns is a string: it has a url and
\* no head (the head went into the payload sent to the API).
CreatePullRequestActual(token, api, branchName, title, body) ==
  IF ~token
    THEN [NoPR EXCEPT !.called = TRUE, !.threw = TRUE, !.title = title,
                      !.body = body,
                      !.message = "GITHUB_TOKEN environment variable not set"]
  ELSE IF api = "created"
    THEN [NoPR EXCEPT !.called = TRUE, !.token = token, !.api = api,
                      !.url = "html_url", !.head = "undefined",
                      !.title = title, !.body = body]
    ELSE [NoPR EXCEPT !.called = TRUE, !.threw = TRUE, !.token = token,
                      !.api = api, !.title = title, !.body = body,
                      !.message = "Failed to create PR"]

\* ------------------------------------------------- repository locations
\* String.startsWith and String.endsWith on texts written character by
\* character
StartsWith(s, p) == Len(s) >= Len(p) /\ SubSeq(s, 1, Len(p)) = p
EndsWith(s, p) ==
  Len(s) >= Len(p) /\ SubSeq(s, Len(s) - Len(p) + 1, Len(s)) = p
\* the largest element of a set of positions, 0 for the empty set
Last(S) == IF S = {} THEN 0 ELSE CHOOSE i \in S : \A j \in S : j <= i

Https == <<"h", "t", "t", "p", "s", ":", "/", "/">>
DotGit == <<".", "g", "i", "t">>
GitAt == <<"g", "i", "t", "@">>

\* path.basename(text, ext): the last segment of the path, trailing slashes
\* aside, without ext when it ends with ext and is more than ext
PathBasename(text, ext) ==
  LET end == Last({i \in 1..Len(text) : text[i] # "/"})
      start == Last({i \in 1..end : text[i] = "/"})
      seg == SubSeq(text, start + 1, end)
  IN IF EndsWith(seg, ext) /\ seg # ext
       THEN SubSeq(seg, 1, Len(seg) - Len(ext))
       ELSE seg

\* cloneRepository: the workspace directory and the repository copy in it
\* for a repository location and the value of Date.now()
WorkDirOf(repoUrl, timestamp) ==
  <<"/tmp/pr-agent-work/">> \o PathBasename(repoUrl, DotGit)
    \o <<"-", timestamp>>
RepoPathOf(repoUrl, timestamp) ==
  WorkDirOf(repoUrl, timestamp) \o <<"/">> \o PathBasename(repoUrl, DotGit)

\* ---------------------------------------------------------------- agent.js
VARIABLES
  pc,            \* where the run is: the step that comes next
  result,        \* what run() returned, or the error it threw
  goalHasMarker, \* the goal contains 'utils/date.js'
  apiKeySet,     \* process.env.ANTHROPIC_API_KEY is set
  tokenSet,      \* process.env.GITHUB_TOKEN is set
  manifest,      \* package.json of the repository copy
  disk,          \* the file that the patch names (where its path leads)
  disk0,         \* that file when the repository was copied
  workDir,       \* the run's workspace directory: none, exists, deleted
  repoShape,     \* what findRelevantFiles meets in the repository copy
  baseline,      \* the TestResult of the baseline run
  verify,        \* the TestResult of the verification run
  fallbackRes,   \* what getFallbackPatch returned
  llmRes,        \* how the getLLMPatch promise settled
  patch,         \* the patch handed to executeWithPatch
  applied,       \* the last applyChanges call: arguments, outcome, file
  prResult,      \* the createPullRequestActual call
  calls,         \* how often each collaborator was invoked
  testLog,       \* the runTests calls so far: manifest, process outcome, result
  llmEvent,      \* what settled the request of getLLMPatch
  logs,          \* the phrases in what the command-line process has printed
  cli,           \* the command-line process around run(): its exit
  http,          \* the response of the server to POST /run
  commit,        \* what git commit was run with and what it did
  now,           \* Date.now() of the machine, in milliseconds
  runs,          \* the runs started on the machine: repository, workspace
  probe,         \* a single function called on its own: input and outcome
  late           \* the event that came after the one that settled getLLMPatch

vars == <<pc, result, goalHasMarker, apiKeySet, tokenSet, manifest, disk, disk0,
          workDir, repoShape, baseline, verify, fallbackRes, llmRes, patch,
          applied, prResult, calls, testLog, llmEvent, logs, cli, http,
          commit, now, runs, probe, late>>

\* what run() and executeWithPatch work on
runVars == <<pc, result, goalHasMarker, apiKeySet, tokenSet, manifest, disk,
             disk0, workDir, repoShape, baseline, verify, fallbackRes, llmRes,
             patch, applied, prResult, calls, testLog, llmEvent, commit>>
\* the processes around run()
front == <<cli, http>>
\* what the runs side by side and the single functions work on
parts == <<now, runs, probe, late>>

inputs == <<goalHasMarker, apiKeySet, tokenSet, manifest, disk0>>

Ops == {"clone", "cloned", "test", "spawn", "fallback", "llm", "request",
        "plan", "write", "branch", "branched", "commit", "committed", "push",
        "pushed", "repoinfo", "pr", "api", "rm"}
Bump(ops) == [o \in Ops |-> IF o \in ops THEN calls[o] + 1 ELSE calls[o]]

NoResult == [status |-> "none", output |-> <<>>, message |-> "",
             plan |-> NoPlan, prData |-> [url |-> "none", head |-> "none"],
             branchName |-> "none"]
Thrown(msg) == [NoResult EXCEPT !.status = "error", !.message = msg]
NoApply == [called |-> FALSE, before |-> NoFile, oldCode |-> <<>>,
            newCode |-> <<>>, threw |-> FALSE, wrote |-> FALSE, after |-> NoFile]
NotSettled == [kind |-> "notcalled", reason |-> "", patch |-> NoPatch]
NotPlanned == [kind |-> "notcalled", patch |-> NoPatch]
NotExited == [exited |-> FALSE, code |-> -1]
\* the POST /run request: what its body is like, the first response sent for
\* it, how often runAgent called its callback and handleRun called sendJSON
NotSent == [request |-> "none", sent |-> FALSE, code |-> 0, status |-> "none",
            callbacks |-> 0, responses |-> 0]
\* the body of a POST /run request, as parseBody and handleRun tell it apart
Requests == {"valid", "bad_json", "no_repo", "no_goal"}

Idle ==
  /\ result = NoResult
  /\ workDir = "none"
  /\ repoShape = UnreadShape
  /\ baseline = NoTestResult
  /\ verify = NoTestResult
  /\ fallbackRes = NotPlanned
  /\ llmRes = NotSettled
  /\ patch = NoPatch
  /\ applied = NoApply
  /\ prResult = NoPR
  /\ calls = [o \in Ops |-> 0]
  /\ testLog = <<>>
  /\ llmEvent = NoEvent
  /\ logs = {}
  /\ cli = NotExited
  /\ http = NotSent
  /\ commit = NoCommit

\* no other run on the machine, no function called on its own
RunIds == {1, 2}
NoRun == [state |-> "none", repo |-> <<>>, workDir |-> <<>>, repoPath |-> <<>>]
NoProbe == [fn |-> "none"]
PartsIdle ==
  /\ now = 0
  /\ runs = [r \in RunIds |-> NoRun]
  /\ probe = NoProbe
  /\ late = "none"

\* run(repoUrl, goal) is about to start on some repository, goal and environment
Init ==
  /\ pc = "request"
  /\ goalHasMarker \in BOOLEAN
  /\ apiKeySet \in BOOLEAN
  /\ tokenSet \in BOOLEAN
  /\ manifest \in Manifests
  /\ disk0 \in Files
  /\ disk = disk0
  /\ Idle
  /\ PartsIdle

\* the run ends by throwing (or by rejecting its promise): nothing follows
Throw(msg) ==
  /\ pc' = "done"
  /\ result' = Thrown(msg)

\* cloneRepository: mkdir -p of the workspace, then git clone or cp -r
CloneRepository ==
  /\ pc = "start"
  /\ \E out \in {"ok", "mkdir_failed", "copy_failed"} :
       /\ workDir' = IF out = "mkdir_failed" THEN "none" ELSE "exists"
       /\ calls' = Bump({"clone"} \cup IF out = "ok" THEN {"cloned"} ELSE {})
       /\ IF out = "ok"
            THEN pc' = "cloned" /\ UNCHANGED result
            ELSE Throw(out)
  /\ UNCHANGED <<inputs, disk, repoShape, baseline, verify, fallbackRes, llmRes,
                 patch, applied, prResult, testLog, llmEvent, logs, front, parts, commit>>

\* run, step 2, as it would be if a passing baseline ended the run (nothing
\* to fix)
BaselineTestsStopsWhenGreen ==
  /\ pc = "cloned"
  /\ \E proc \in ProcsFor(manifest) :
       LET r == RunTests(manifest, proc) IN
       /\ baseline' = r
       /\ testLog' = Append(testLog, [man |-> manifest, proc |-> proc, result |-> r])
       /\ calls' = Bump({"test"} \cup IF r.spawned THEN {"spawn"} ELSE {})
       /\ IF r.threw
            THEN Throw("runTests")
            ELSE IF r.success
              THEN /\ pc' = "done"
                   /\ result' = [NoResult EXCEPT !.status = "success"]
              ELSE pc' = "baselined" /\ UNCHANGED result
  /\ UNCHANGED <<inputs, disk, workDir, repoShape, verify, fallbackRes, llmRes,
                 patch, applied, prResult, llmEvent, logs, front, parts, commit>>

\* run, step 2: the baseline test run
BaselineTests ==
  /\ pc = "cloned"
  /\ \E proc \in ProcsFor(manifest) :
       LET r == RunTests(manifest, proc) IN
       /\ baseline' = r
       /\ testLog' = Append(testLog, [man |-> manifest, proc |-> proc, result |-> r])
       /\ calls' = Bump({"test"} \cup IF r.spawned THEN {"spawn"} ELSE {})
       /\ IF r.threw
            THEN Throw("runTests")
            ELSE pc' = "baselined" /\ UNCHANGED result
  /\ UNCHANGED <<inputs, disk, workDir, repoShape, verify, fallbackRes, llmRes,
                 patch, applied, prResult, llmEvent, logs, front, parts, commit>>

\* the repository copy as findRelevantFiles will meet it, read once
ShapesNow == IF repoShape = UnreadShape THEN Shapes ELSE {repoShape}

\* a mutant of PlanFix: the Anthropic API is asked before the fallback patch
\* is looked at
PlanFixLLMFirst ==
  /\ pc = "baselined"
  /\ \E shape \in ShapesNow :
       LET pre == LLMPrecheck(apiKeySet, shape) IN
       /\ repoShape' = IF apiKeySet THEN shape ELSE repoShape
       /\ fallbackRes' = IF pre = "request" THEN fallbackRes
                         ELSE GetFallbackPatch(goalHasMarker, disk)
       /\ calls' = Bump({"llm"} \cup (IF pre = "request" THEN {"request"}
                                      ELSE {"fallback"}))
       /\ IF pre = "request"
            THEN /\ pc' = "llm_wait"
                 /\ UNCHANGED <<llmRes, patch, result>>
            ELSE /\ llmRes' = NullPatch("precheck")
                 /\ IF fallbackRes'.kind = "patch"
                      THEN /\ patch' = fallbackRes'.patch
                           /\ pc' = "planned"
                           /\ UNCHANGED result
                      ELSE /\ pc' = "llm_settled"
                           /\ UNCHANGED <<patch, result>>
  /\ UNCHANGED <<inputs, disk, workDir, baseline, verify, applied, prResult,
                 testLog, llmEvent, logs, front, parts, commit>>

\* run, step 3: getFallbackPatch and, when it returns null, the call of
\* getLLMPatch up to the point where its promise is pending or settled
PlanFix ==
  /\ pc = "baselined"
  /\ fallbackRes' = GetFallbackPatch(goalHasMarker, disk)
  /\ CASE fallbackRes'.kind = "patch" ->
            /\ patch' = fallbackRes'.patch
            /\ pc' = "planned"
            /\ calls' = Bump({"fallback"})
            /\ UNCHANGED <<result, repoShape, llmRes>>
       [] fallbackRes'.kind = "threw" ->
            /\ Throw("getFallbackPatch")
            /\ calls' = Bump({"fallback"})
            /\ UNCHANGED <<patch, repoShape, llmRes>>
       [] fallbackRes'.kind = "null" ->
            \E shape \in ShapesNow :
              LET pre == LLMPrecheck(apiKeySet, shape) IN
              /\ repoShape' = IF apiKeySet THEN shape ELSE repoShape
              /\ calls' = Bump({"fallback", "llm"}
                               \cup IF pre = "request" THEN {"request"} ELSE {})
              /\ llmRes' = CASE pre = "null" -> NullPatch("precheck")
                             [] pre = "rejected" ->
                                  [kind |-> "rejected", reason |-> "findRelevantFiles",
                                   patch |-> NoPatch]
                             [] pre = "request" ->
                                  [kind |-> "pending", reason |-> "", patch |-> NoPatch]
              /\ pc' = IF pre = "request" THEN "llm_wait" ELSE "llm_settled"
              /\ UNCHANGED <<patch, result>>
  /\ UNCHANGED <<inputs, disk, workDir, baseline, verify, applied, prResult,
                 testLog, llmEvent, logs, front, parts, commit>>

\* a mutant of Resolve: the last call of resolve sets the value
ResolveLastWins(current, value) == value

\* resolve(value) of the promise that getLLMPatch returns: a promise that is
\* settled keeps its value
Resolve(current, value) ==
  IF current.kind = "pending" THEN value ELSE current

\* getLLMPatch: the response ends, the request fails, or the 30 s timeout fires
LLMSettles ==
  /\ pc = "llm_wait"
  /\ \/ \E resp \in Responses :
          /\ llmRes' = Resolve(llmRes, ValidateResponse(resp, disk))
          /\ llmEvent' = EndEvent(resp, disk)
     \/ /\ llmRes' = Resolve(llmRes, NullPatch("request failed"))
        /\ llmEvent' = ErrorEvent
     \/ /\ llmRes' = Resolve(llmRes, NullPatch("timed out"))
        /\ llmEvent' = TimeoutEvent
  /\ pc' = "llm_settled"
  /\ UNCHANGED <<inputs, result, disk, workDir, repoShape, baseline, verify,
                 fallbackRes, patch, applied, prResult, calls, testLog,
                 logs, front, parts, commit>>

\* getLLMPatch: an event after the one that settled the request.  The 'error'
\* that req.destroy() of the timeout handler raises comes before the then
\* callback; the timeout of a request whose response was accepted as a patch
\* comes when executeWithPatch, which blocks the process, is over.  Each
\* handler calls resolve(null).
LLMLateEvent ==
  /\ late = "none"
  /\ \/ /\ pc = "llm_settled"
        /\ llmEvent.kind = "timeout"
        /\ llmRes' = Resolve(llmRes, NullPatch("request failed"))
        /\ late' = "error"
     \/ /\ pc = "done"
        /\ ~cli.exited
        /\ llmEvent.kind = "end"
        /\ llmRes.kind = "patch"
        /\ llmRes' = Resolve(llmRes, NullPatch("timed out"))
        /\ late' = "timeout"
  /\ UNCHANGED <<pc, inputs, result, disk, workDir, repoShape, baseline, verify,
                 fallbackRes, patch, applied, prResult, calls, testLog,
                 logs, front, now, runs, probe, commit, llmEvent>>

\* run: the then and catch callbacks on the promise of getLLMPatch
LLMThen ==
  /\ pc = "llm_settled"
  /\ CASE llmRes.kind = "rejected" ->
            /\ Throw(llmRes.reason)
            /\ UNCHANGED <<patch, repoShape, calls, logs>>
       [] llmRes.kind = "patch" ->
            /\ patch' = llmRes.patch
            /\ pc' = "planned"
            /\ UNCHANGED <<result, repoShape, calls, logs>>
       [] llmRes.kind = "null" ->
            \E shape \in ShapesNow :
              LET plan == GeneratePlan(shape, goalHasMarker, baseline.output) IN
              /\ repoShape' = shape
              /\ calls' = Bump({"plan"})
              /\ logs' = logs \cup {"LLM intervention required"}
              /\ pc' = "done"
              /\ result' = IF plan.threw
                             THEN Thrown("generatePlan")
                             ELSE [NoResult EXCEPT !.status = "needs_llm",
                                                   !.output = plan.testOutput,
                                                   !.plan = plan]
              /\ UNCHANGED patch
  /\ UNCHANGED <<inputs, disk, workDir, baseline, verify, fallbackRes, llmRes,
                 applied, prResult, testLog, llmEvent, front, parts, commit>>

ApplyRecord(file, oldCode, newCode, r) ==
  [called |-> TRUE, before |-> file, oldCode |-> oldCode, newCode |-> newCode,
   threw |-> r.threw, wrote |-> r.wrote, after |-> r.file]

\* executeWithPatch, step 4, as it would be if a failed applyChanges were
\* caught and the pipeline went on to the verification run
ApplyFixIgnoresFailure ==
  /\ pc = "planned"
  /\ LET r == ApplyChanges(disk, patch.oldCode, patch.newCode) IN
     /\ applied' = ApplyRecord(disk, patch.oldCode, patch.newCode, r)
     /\ disk' = r.file
     /\ calls' = IF r.wrote THEN Bump({"write"}) ELSE calls
     /\ pc' = "applied"
  /\ UNCHANGED <<inputs, workDir, repoShape, baseline, verify, fallbackRes,
                 llmRes, patch, prResult, testLog, llmEvent, logs, front, parts,
                 result, commit>>

\* executeWithPatch, step 4: applyChanges on the patched file
ApplyFix ==
  /\ pc = "planned"
  /\ LET r == ApplyChanges(disk, patch.oldCode, patch.newCode) IN
     /\ applied' = ApplyRecord(disk, patch.oldCode, patch.newCode, r)
     /\ disk' = r.file
     /\ calls' = IF r.wrote THEN Bump({"write"}) ELSE calls
     /\ IF r.threw
          THEN Throw(r.message)
          ELSE pc' = "applied" /\ UNCHANGED result
  /\ UNCHANGED <<inputs, workDir, repoShape, baseline, verify, fallbackRes,
                 llmRes, patch, prResult, testLog, llmEvent, logs, front, parts, commit>>

\* executeWithPatch, step 5: the verification test run
VerifyFix ==
  /\ pc = "applied"
  /\ \E proc \in ProcsFor(manifest) :
       LET r == RunTests(manifest, proc) IN
       /\ verify' = r
       /\ testLog' = Append(testLog, [man |-> manifest, proc |-> proc, result |-> r])
       /\ calls' = Bump({"test"} \cup IF r.spawned THEN {"spawn"} ELSE {})
       /\ IF r.threw
            THEN Throw("runTests")
            ELSE pc' = "verified" /\ UNCHANGED result
  /\ UNCHANGED <<inputs, disk, workDir, repoShape, baseline, fallbackRes, llmRes,
                 patch, applied, prResult, llmEvent, logs, front, parts, commit>>

\* a mutant of GateCloses: no safety gate (the run goes on whatever the tests said)
GateNeverCloses(verifyResult) == FALSE

\* executeWithPatch: if (!verifyResult.success)
GateCloses(verifyResult) == ~verifyResult.success

\* rm -rf of the workspace inside try/catch: it may fail, and that is ignored
Teardown == \E removed \in BOOLEAN :
              workDir' = IF removed THEN "deleted" ELSE workDir

\* a mutant of VerifyFailed: the workspace is left alone
VerifyFailedKeepsWorkspace ==
  /\ pc = "verified"
  /\ GateCloses(verify)
  /\ pc' = "done"
  /\ result' = [NoResult EXCEPT !.status = "verify_failed",
                                !.output = verify.output]
  /\ UNCHANGED <<inputs, disk, workDir, repoShape, baseline, verify,
                 fallbackRes, llmRes, patch, applied, prResult, calls, testLog,
                 llmEvent, logs, front, parts, commit>>

\* a mutant of VerifyFailed: the return statement is missing, so the run falls
\* through to the publishing steps with verify_failed already produced
VerifyFailedFallsThrough ==
  /\ pc = "verified"
  /\ GateCloses(verify)
  /\ Teardown
  /\ calls' = Bump({"rm"})
  /\ pc' = "branched"
  /\ result' = [NoResult EXCEPT !.status = "verify_failed",
                                !.output = verify.output]
  /\ UNCHANGED <<inputs, disk, repoShape, baseline, verify, fallbackRes, llmRes,
                 patch, applied, prResult, testLog, llmEvent, logs, front, parts, commit>>

\* executeWithPatch: the safety gate closes, the workspace is removed and
\* verify_failed is returned
VerifyFailed ==
  /\ pc = "verified"
  /\ GateCloses(verify)
  /\ Teardown
  /\ calls' = Bump({"rm"})
  /\ pc' = "done"
  /\ result' = [NoResult EXCEPT !.status = "verify_failed",
                                !.output = verify.output]
  /\ UNCHANGED <<inputs, disk, repoShape, baseline, verify, fallbackRes, llmRes,
                 patch, applied, prResult, testLog, llmEvent, logs, front, parts, commit>>

\* one git step of executeWithPatch: the command succeeds or the step throws
GitStep(from, to, op, done) ==
  /\ pc = from
  /\ \E ok \in BOOLEAN :
       /\ calls' = Bump({op} \cup IF ok THEN done ELSE {})
       /\ IF ok THEN pc' = to /\ UNCHANGED result ELSE Throw(op)
  /\ UNCHANGED <<inputs, disk, workDir, repoShape, baseline, verify, fallbackRes,
                 llmRes, patch, applied, prResult, testLog, llmEvent,
                 logs, front, parts, commit>>

\* executeWithPatch, step 6: publisher.createBranch
CreateBranch == ~GateCloses(verify) /\ GitStep("verified", "branched", "branch", {"branched"})
\* publisher.commitChanges(repoPath, patch.summary)
CommitChanges ==
  /\ pc = "branched"
  /\ \E gitOk \in BOOLEAN :
       LET r == GitCommit(patch.summary, gitOk) IN
       /\ commit' = r
       /\ calls' = Bump({"commit"} \cup IF r.threw THEN {} ELSE {"committed"})
       /\ IF r.threw THEN Throw("commit") ELSE pc' = "committed" /\ UNCHANGED result
  /\ UNCHANGED <<inputs, disk, workDir, repoShape, baseline, verify, fallbackRes,
                 llmRes, patch, applied, prResult, testLog, llmEvent,
                 logs, front, parts>>
\* publisher.pushBranch
PushBranch == GitStep("committed", "pushed", "push", {"pushed"})
\* executeWithPatch, step 7: publisher.getRepoInfo
GetRepoInfo == GitStep("pushed", "repoinfo", "repoinfo", {})

\* path.basename: the last segment of the path
Basename(p) == p.rel

\* createPRBody(patch, baselineResult, verifyResult): the four parts that it
\* puts into the body
CreatePRBody(p, baselineResult, verifyResult) ==
  [summary |-> p.summary, file |-> Basename(p.file),
   before |-> baselineResult.output, after |-> verifyResult.output]

\* executeWithPatch, step 7: publisher.createPullRequestActual
CreatePullRequest ==
  /\ pc = "repoinfo"
  /\ \E api \in ApiOutcomes :
       LET r == CreatePullRequestActual(tokenSet, api, BranchName,
                                        <<"Fix: ">> \o patch.summary,
                                        CreatePRBody(patch, baseline, verify)) IN
       /\ prResult' = r
       /\ calls' = Bump({"pr"} \cup IF r.api # "none" THEN {"api"} ELSE {})
       /\ IF r.threw
            THEN Throw(r.message)
            ELSE pc' = "pr_done" /\ UNCHANGED result
  /\ UNCHANGED <<inputs, disk, workDir, repoShape, baseline, verify, fallbackRes,
                 llmRes, patch, applied, testLog, llmEvent, logs, front, parts, commit>>

\* executeWithPatch: clean up on success and return
ReturnSuccess ==
  /\ pc = "pr_done"
  /\ Teardown
  /\ calls' = Bump({"rm"})
  /\ pc' = "done"
  /\ result' = [NoResult EXCEPT !.status = "success",
                                !.prData = [url |-> prResult.url,
                                             head |-> prResult.head],
                                !.branchName = BranchName]
  /\ UNCHANGED <<inputs, disk, repoShape, baseline, verify, fallbackRes, llmRes,
                 patch, applied, prResult, testLog, llmEvent, logs, front, parts, commit>>

\* ------------------------------------------------------ cli.js, server.js
Statuses == {"success", "verify_failed", "needs_llm", "error"}

\* a mutant of ExitCode: needs_llm exits with status zero as well
ExitCodePaused(status) ==
  IF status \in {"success", "needs_llm"} THEN 0 ELSE 1

\* main of cli.js: the exit status for the result of run(); a thrown error is
\* caught and is status "error" here, anything else falls to the catch-all
ExitCode(status) == IF status = "success" THEN 0 ELSE 1

\* main of cli.js: the phrases it prints for the result of run()
CliPrints(status) ==
  CASE status = "success" -> {"Agent execution complete"}
    [] status = "verify_failed" -> {"Verification failed"}
    [] status = "needs_llm" -> {"LLM intervention required"}
    [] OTHER -> {}

\* determineStatus(logs, exitCode) of server.js
DetermineStatus(text, exitCode) ==
  IF "Agent execution complete" \in text THEN "success"
  ELSE IF "verify_failed" \in text \/ "Verification failed" \in text
    THEN "verify_failed"
  ELSE IF "needs_llm" \in text \/ "LLM intervention required" \in text
    THEN "needs_llm"
  ELSE IF exitCode # 0 THEN "error"
  ELSE "success"

\* handleRun of server.js: a request that is not valid is answered with 400;
\* for a valid one runAgent spawns cli.js, which starts or cannot be started
HandleRun ==
  /\ pc = "request"
  /\ \E req \in Requests :
       IF req # "valid"
         THEN /\ http' = [http EXCEPT !.request = req, !.sent = TRUE,
                                      !.code = 400, !.status = "none",
                                      !.responses = 1]
              /\ pc' = "rejected"
         ELSE /\ http' = [http EXCEPT !.request = req]
              /\ \E started \in BOOLEAN :
                   pc' = IF started THEN "start" ELSE "spawn_failed"
  /\ UNCHANGED <<result, inputs, disk, workDir, repoShape, baseline, verify,
                 fallbackRes, llmRes, patch, applied, prResult, calls, testLog,
                 llmEvent, logs, cli, commit, parts>>

\* handleRun: the callback it gives to runAgent; sendJSON a second time throws
\* (the headers are sent), the response that counts is the first
Callback(err, status) ==
  [http EXCEPT !.sent = TRUE,
               !.code = IF http.sent THEN http.code
                        ELSE IF err THEN 500 ELSE 200,
               !.status = IF http.sent THEN http.status
                          ELSE IF err THEN "error" ELSE status,
               !.callbacks = http.callbacks + 1,
               !.responses = http.responses + 1]

\* runAgent: cli.js could not be started.  The child emits 'error', and
\* after it 'close' as well (with nothing logged and a code that is not 0);
\* both handlers call the callback.
SpawnFailed ==
  /\ pc = "spawn_failed"
  /\ \/ /\ http.callbacks = 0
        /\ http' = Callback(TRUE, "error")
     \/ /\ http.callbacks = 1
        /\ http' = Callback(FALSE, DetermineStatus({}, 1))
  /\ UNCHANGED <<runVars, logs, cli, parts>>

\* main of cli.js after run() returned or threw: print and process.exit
CliMain ==
  /\ pc = "done"
  /\ ~cli.exited
  /\ cli' = [exited |-> TRUE, code |-> ExitCode(result.status)]
  /\ logs' = logs \cup CliPrints(result.status)
  /\ UNCHANGED <<runVars, http, parts>>

\* runAgent of server.js: the close event of the spawned cli.js, and the
\* response handleRun sends for it
ServerClose ==
  /\ cli.exited
  /\ ~http.sent
  /\ http' = Callback(FALSE, DetermineStatus(logs, cli.code))
  /\ UNCHANGED <<runVars, logs, cli, parts>>

Next ==
  \/ HandleRun
  \/ SpawnFailed
  \/ CloneRepository
  \/ BaselineTests
  \/ PlanFix
  \/ LLMSettles
  \/ LLMLateEvent
  \/ LLMThen
  \/ ApplyFix
  \/ VerifyFix
  \/ VerifyFailed
  \/ CreateBranch
  \/ CommitChanges
  \/ PushBranch
  \/ GetRepoInfo
  \/ CreatePullRequest
  \/ ReturnSuccess
  \/ CliMain
  \/ ServerClose

Spec == Init /\ [][Next]_vars

\* ------------------------------------------------- executor.js on its own
\* applyChanges called once through the module's export, on any file and
\* any fragments
InitExec ==
  /\ pc = "exec"
  /\ goalHasMarker = FALSE
  /\ apiKeySet = FALSE
  /\ tokenSet = FALSE
  /\ manifest = "absent"
  /\ disk0 \in Files
  /\ disk = disk0
  /\ Idle
  /\ PartsIdle

ExecApplyChanges ==
  /\ pc = "exec"
  /\ ~applied.called
  /\ \E oldCode \in OldCodes, newCode \in NewCodes :
       LET r == ApplyChanges(disk, oldCode, newCode) IN
       /\ applied' = ApplyRecord(disk, oldCode, newCode, r)
       /\ disk' = r.file
  /\ UNCHANGED <<pc, result, inputs, workDir, repoShape, baseline, verify,
                 fallbackRes, llmRes, patch, prResult, calls,
                 testLog, llmEvent, logs, front, parts, commit>>

NextExec == ExecApplyChanges

SpecExec == InitExec /\ [][NextExec]_vars

\* ------------------------------------------- runs on the same machine
\* Two POST /run requests (or two command lines): each is a process of its
\* own that calls cloneRepository at some millisecond and later removes its
\* workspace (success, verify_failed) or leaves it (needs_llm, error).
MaxClock == 2
RunRepos ==
  {Https \o <<"h", "/", "o", "/", "n">> \o DotGit,
   Https \o <<"h", "/", "p", "/", "n">>,
   <<"/", "s", "r", "v", "/", "m">>}

InitRuns ==
  /\ pc = "runs"
  /\ goalHasMarker = FALSE
  /\ apiKeySet = FALSE
  /\ tokenSet = FALSE
  /\ manifest = "absent"
  /\ disk0 = NoFile
  /\ disk = disk0
  /\ Idle
  /\ now = 0
  /\ runs \in [RunIds -> {[NoRun EXCEPT !.state = "requested", !.repo = u] :
                            u \in RunRepos}]
  /\ probe = NoProbe
  /\ late = "none"

\* a millisecond passes
ClockTick ==
  /\ now < MaxClock
  /\ now' = now + 1
  /\ UNCHANGED <<runVars, logs, front, runs, probe, late>>

\* cloneRepository of run r: mkdir -p of its workspace and the clone into it
RunClones(r) ==
  /\ runs[r].state = "requested"
  /\ runs' = [runs EXCEPT ![r] = [state |-> "working", repo |-> runs[r].repo,
                                  workDir |-> WorkDirOf(runs[r].repo, now),
                                  repoPath |-> RepoPathOf(runs[r].repo, now)]]
  /\ UNCHANGED <<runVars, logs, front, now, probe, late>>

\* run r ends: rm -rf of its workspace, or the workspace is left behind
RunEnds(r) ==
  /\ runs[r].state = "working"
  /\ \E how \in {"removed", "kept"} :
       runs' = [runs EXCEPT ![r].state = how]
  /\ UNCHANGED <<runVars, logs, front, now, probe, late>>

NextRuns ==
  \/ ClockTick
  \/ \E r \in RunIds : RunClones(r)
  \/ \E r \in RunIds : RunEnds(r)

SpecRuns == InitRuns /\ [][NextRuns]_vars

\* ================================================ functions called on their own
\* String(n) of a number that is not negative: its decimal digits
DigitChars == <<"0", "1", "2", "3", "4", "5", "6", "7", "8", "9">>
RECURSIVE Digits(_)
Digits(n) ==
  IF n < 10 THEN <<DigitChars[n + 1]>>
  ELSE Digits(n \div 10) \o <<DigitChars[(n % 10) + 1]>>

\* String.prototype.padStart(targetLength, padString) with one pad character
PadStart(text, targetLength, padChar) ==
  IF Len(text) >= targetLength THEN text
  ELSE [i \in 1..(targetLength - Len(text)) |-> padChar] \o text

\* a mutant of GetTimestamp: the month as getMonth() gives it, from zero
GetTimestampMonthFromZero(t) ==
  Digits(t.year) \o PadStart(Digits(t.month), 2, "0")
    \o PadStart(Digits(t.date), 2, "0") \o <<"-">>
    \o PadStart(Digits(t.hours), 2, "0") \o PadStart(Digits(t.minutes), 2, "0")
    \o PadStart(Digits(t.seconds), 2, "0")

\* getTimestamp: t holds what getFullYear, getMonth (from zero), getDate,
\* getHours, getMinutes and getSeconds of the local time give; the year is
\* joined as the number it is, the other five are padded to two digits
GetTimestamp(t) ==
  Digits(t.year) \o PadStart(Digits(t.month + 1), 2, "0")
    \o PadStart(Digits(t.date), 2, "0") \o <<"-">>
    \o PadStart(Digits(t.hours), 2, "0") \o PadStart(Digits(t.minutes), 2, "0")
    \o PadStart(Digits(t.seconds), 2, "0")

\* the local times at which createBranch is called
Times ==
  [year : {1999, 2026}, month : {0, 8, 11}, date : {1, 31}, hours : {0, 23},
   minutes : {5, 59}, seconds : {0, 9}]

InitParts ==
  /\ pc = "parts"
  /\ goalHasMarker = FALSE
  /\ apiKeySet = FALSE
  /\ tokenSet = FALSE
  /\ manifest = "absent"
  /\ disk0 = NoFile
  /\ disk = disk0
  /\ Idle
  /\ PartsIdle

\* createBranch(repoPath) at local time t: git checkout -b of the name; a
\* failure of git is thrown again as 'Failed to create branch'
CreateBranchAt ==
  /\ pc = "parts"
  /\ probe = NoProbe
  /\ \E t \in Times, gitOk \in BOOLEAN :
       probe' = [fn |-> "createBranch", time |-> t,
                 branchName |-> <<"f", "i", "x", "/">> \o GetTimestamp(t),
                 threw |-> ~gitOk, commits |-> 0, pushes |-> 0]
  /\ UNCHANGED <<runVars, logs, front, now, runs, late>>

\* executeWithPatch, step 6 after createBranch returned: commitChanges, then
\* pushBranch of the branch name
PublishBranch ==
  /\ pc = "parts"
  /\ probe.fn = "createBranch"
  /\ ~probe.threw
  /\ probe.pushes = 0
  /\ \/ probe.commits = 0 /\ probe' = [probe EXCEPT !.commits = 1]
     \/ probe.commits = 1 /\ probe' = [probe EXCEPT !.pushes = 1]
  /\ UNCHANGED <<runVars, logs, front, now, runs, late>>

\* the text that /github\.com[:/]([^/]+)\/(.+?)(\.git)?$/ looks for
GithubCom == <<"g", "i", "t", "h", "u", "b", ".", "c", "o", "m">>

\* the first slash of text at or after position from; 0 when there is none
SlashFrom(text, from) ==
  LET at == {j \in from..Len(text) : text[j] = "/"} IN
  IF at = {} THEN 0 ELSE CHOOSE j \in at : \A k \in at : j <= k

\* the pattern of getRepoInfo tried at position i of the remote URL:
\* github.com, a colon or a slash, an owner without a slash, a slash, and a
\* name that takes the rest of the text
RepoMatchAt(remoteUrl, i) ==
  LET sep == i + Len(GithubCom)
      slash == SlashFrom(remoteUrl, sep + 1) IN
  /\ sep <= Len(remoteUrl)
  /\ SubSeq(remoteUrl, i, sep - 1) = GithubCom
  /\ remoteUrl[sep] \in {":", "/"}
  /\ slash > sep + 1
  /\ slash < Len(remoteUrl)

\* a mutant of RepoInfoOf: the name keeps a trailing .git
RepoInfoKeepsDotGit(remoteUrl) ==
  LET at == {i \in 1..Len(remoteUrl) : RepoMatchAt(remoteUrl, i)} IN
  IF at = {} THEN [threw |-> TRUE, owner |-> <<>>, repo |-> <<>>]
  ELSE LET i == CHOOSE j \in at : \A k \in at : j <= k
           sep == i + Len(GithubCom)
           slash == SlashFrom(remoteUrl, sep + 1) IN
       [threw |-> FALSE, owner |-> SubSeq(remoteUrl, sep + 1, slash - 1),
        repo |-> SubSeq(remoteUrl, slash + 1, Len(remoteUrl))]

\* getRepoInfo on the remote URL that git printed, trimmed: the leftmost match
\* of the pattern gives owner and name, the name without one trailing .git
\* (the lazy group keeps at least one character); no match throws
RepoInfoOf(remoteUrl) ==
  LET at == {i \in 1..Len(remoteUrl) : RepoMatchAt(remoteUrl, i)} IN
  IF at = {} THEN [threw |-> TRUE, owner |-> <<>>, repo |-> <<>>]
  ELSE LET i == CHOOSE j \in at : \A k \in at : j <= k
           sep == i + Len(GithubCom)
           slash == SlashFrom(remoteUrl, sep + 1)
           rest == SubSeq(remoteUrl, slash + 1, Len(remoteUrl)) IN
       [threw |-> FALSE, owner |-> SubSeq(remoteUrl, sep + 1, slash - 1),
        repo |-> IF EndsWith(rest, DotGit) /\ Len(rest) > Len(DotGit)
                   THEN SubSeq(rest, 1, Len(rest) - Len(DotGit))
                   ELSE rest]

\* the remotes of the repositories getRepoInfo is called on: the https and
\* the scp-like form on two hosts, with and without .git, and a local path
GitlabCom == <<"g", "i", "t", "l", "a", "b", ".", "c", "o", "m">>
Remotes ==
  [form : {"https", "scp"}, host : {GithubCom, GitlabCom},
   owner : {<<"o">>, <<"a", "c", "m", "e">>},
   name : {<<"n">>, <<"w", ".", "j", "s">>}, dotGit : BOOLEAN]
    \cup {[form |-> "path", host |-> <<>>, owner |-> <<>>,
           name |-> <<"/", "s", "r", "v", "/", "m">>, dotGit |-> FALSE]}
RemoteUrl(r) ==
  (CASE r.form = "https" -> Https \o r.host \o <<"/">> \o r.owner \o <<"/">>
     [] r.form = "scp" -> GitAt \o r.host \o <<":">> \o r.owner \o <<"/">>
     [] OTHER -> <<>>)
    \o r.name \o (IF r.dotGit THEN DotGit ELSE <<>>)

\* getRepoInfo(repoPath) in a repository whose origin is r: a failure of git
\* remote get-url and a URL without a match are both thrown as 'Failed to
\* get repo info'
GetRepoInfoAt ==
  /\ pc = "parts"
  /\ probe = NoProbe
  /\ \E r \in Remotes, gitOk \in BOOLEAN :
       LET info == RepoInfoOf(RemoteUrl(r)) IN
       probe' = [fn |-> "getRepoInfo", remote |-> r, gitOk |-> gitOk,
                 threw |-> ~gitOk \/ info.threw,
                 owner |-> IF gitOk THEN info.owner ELSE <<>>,
                 repo |-> IF gitOk THEN info.repo ELSE <<>>]
  /\ UNCHANGED <<runVars, logs, front, now, runs, late>>

\* the repoUrl arguments of cloneRepository: URLs with a scheme, scp-like
\* remotes of two users, and absolute and relative local paths
Locations ==
  {Https \o <<"h", "/", "o", "/", "n">> \o DotGit,
   <<"h", "t", "t", "p", ":", "/", "/", "h", "/", "n">>,
   GitAt \o <<"h", ":", "o", "/", "n">> \o DotGit,
   <<"b", "o", "b", "@", "h", ":", "o", "/", "n">> \o DotGit,
   <<"/", "s", "r", "v", "/", "m">>,
   <<".", "/", "m">>,
   <<"h", "t", "t", "p", "d", "/", "m">>}

\* cloneRepository: the command it runs for repoUrl once the workspace exists
MaterializeCommand(repoUrl) ==
  IF StartsWith(repoUrl, <<"h", "t", "t", "p">>) \/ StartsWith(repoUrl, GitAt)
    THEN "clone"
    ELSE "copy"

\* cloneRepository(repoUrl): mkdir -p of the workspace, then git clone or
\* cp -r; execSync throws on a non-zero exit of either
CloneRepositoryAt ==
  /\ pc = "parts"
  /\ probe = NoProbe
  /\ \E repoUrl \in Locations, out \in {"ok", "mkdir_failed", "command_failed"} :
       probe' = [fn |-> "cloneRepository", repoUrl |-> repoUrl,
                 command |-> IF out = "mkdir_failed" THEN "none"
                             ELSE MaterializeCommand(repoUrl),
                 threw |-> out # "ok", tests |-> 0]
  /\ UNCHANGED <<runVars, logs, front, now, runs, late>>

\* run, step 2 after cloneRepository returned: the baseline test run
TestsAfterClone ==
  /\ pc = "parts"
  /\ probe.fn = "cloneRepository"
  /\ ~probe.threw
  /\ probe.tests = 0
  /\ probe' = [probe EXCEPT !.tests = 1]
  /\ UNCHANGED <<runVars, logs, front, now, runs, late>>

NextParts ==
  \/ CreateBranchAt
  \/ PublishBranch
  \/ GetRepoInfoAt
  \/ CloneRepositoryAt
  \/ TestsAfterClone

SpecParts == InitParts /\ [][NextParts]_vars

\* ================================================================== claims
Terminal == {"success", "verify_failed", "needs_llm", "error"}
Finished == pc = "done"
VerifyRan == verify.command # "unset"

\* C1 -- Safety gate: whenever the test run made after applying the patch
\* returned success = false, no commit, no push and no pull-request call has
\* been invoked, and the finished run has status verify_failed with the output
\* of that test run.
C1_SafetyGate ==
  (VerifyRan /\ ~verify.success) =>
    /\ calls["commit"] = 0
    /\ calls["push"] = 0
    /\ calls["pr"] = 0
    /\ Finished => (result.status = "verify_failed" /\ result.output = verify.output)

\* C1 witness: a run with an API patch ended verify_failed, its verification
\* output differing from the baseline output
C1_Witness ==
  /\ Finished
  /\ result.status = "verify_failed"
  /\ patch.source = "llm"
  /\ ~verify.success
  /\ verify.output # baseline.output

\* C2 -- Exactly one outcome: a finished run has exactly one of the four
\* terminal outcomes, an unfinished run has none and can take a step, and once
\* the outcome is produced no step of the pipeline takes place.
C2_ExactlyOneOutcome ==
  /\ [](/\ result.status \in Terminal \cup {"none"}
        /\ Finished <=> result.status \in Terminal
        /\ (~Finished /\ pc \notin {"rejected", "spawn_failed"}) =>
             ENABLED Next)
  /\ [][result.status = "none" \/ UNCHANGED runVars]_vars

\* C2 witness: runs that ended in each of the outcomes exist; this one threw
\* after the patch had been applied and verified
C2_Witness ==
  /\ Finished
  /\ result.status = "error"
  /\ verify.success
  /\ calls["push"] = 1

\* C3 -- Priority order: getLLMPatch is invoked only after getFallbackPatch
\* returned null, needs_llm is returned only when both gave no patch, and when
\* getFallbackPatch gives a patch neither getLLMPatch nor the API is called.
C3_PriorityOrder ==
  /\ calls["llm"] > 0 => (fallbackRes.kind = "null" /\ calls["fallback"] = 1)
  /\ calls["request"] > 0 => calls["llm"] > 0
  /\ patch.source = "llm" => fallbackRes.kind = "null"
  /\ result.status = "needs_llm" => (fallbackRes.kind = "null" /\ llmRes.kind = "null")
  /\ fallbackRes.kind = "patch" =>
       (calls["llm"] = 0 /\ calls["request"] = 0 /\ patch.source = "fallback")

\* C3 witness: the fallback patch was used although the API credential is set
C3_Witness ==
  /\ fallbackRes.kind = "patch"
  /\ apiKeySet
  /\ applied.called
  /\ calls["request"] = 0

\* what generatePlan needs in order to return a plan: the goal names an
\* existing file, or the walk of the repository copy finds a .js file, and
\* what was found can be read
HasCandidate(shape) ==
  /\ shape.readable
  /\ \/ shape.mentioned = "file"
     \/ /\ shape.mentioned = "none" /\ shape.walk = "ok"
        /\ shape.jsFiles - shape.substr >= 1

NoPatchAtAll == Finished /\ fallbackRes.kind = "null" /\ llmRes.kind = "null"
NothingTouched ==
  /\ disk = disk0
  /\ ~applied.called
  /\ calls["write"] = 0
  /\ calls["test"] = 1
  /\ calls["branch"] = 0
  /\ calls["commit"] = 0
  /\ calls["push"] = 0
  /\ calls["pr"] = 0

C5_WorkspaceKept ==
  (Finished /\ result.status # "success" /\ workDir # "none") => workDir = "exists"

\* C6 -- createPullRequestActual never throws: without a credential, or when
\* the API did not create the pull request, it returns; a URL is returned only
\* when the API reported the pull request created.
C6_PRNeverThrows ==
  prResult.called =>
    /\ ~prResult.threw
    /\ prResult.url # "null" => prResult.api = "created"

\* C7 -- Best-effort steps: a finished run whose verification passed, whose
\* branch was created, committed and pushed and which went on to the
\* pull-request call has status success, whatever that call and the removal of
\* the workspace did.
C7_BestEffort ==
  (Finished /\ verify.success /\ calls["pushed"] = 1 /\ prResult.called) =>
    result.status = "success"

Occurrences(s, t) == {i \in 0..Len(s) : OccursAt(s, t, i)}
FirstOccurrence(s, t) ==
  CHOOSE i \in Occurrences(s, t) : \A j \in Occurrences(s, t) : i <= j

\* C8 -- First occurrence only: when oldCode occurs at least twice in the file,
\* applyChanges writes the file with the text before the earliest occurrence
\* and the text after it (every later occurrence included) as they were, and
\* the replacement in between.
C8_FirstOccurrenceOnly ==
  (applied.called /\ applied.before.exists
     /\ Cardinality(Occurrences(applied.before.content, applied.oldCode)) >= 2) =>
    LET b == applied.before.content
        a == applied.after.content
        i == FirstOccurrence(b, applied.oldCode)
        rest == Len(b) - i - Len(applied.oldCode)
        mid == GetSubstitution(applied.oldCode, applied.newCode)
    IN /\ ~applied.threw
       /\ applied.wrote
       /\ disk = applied.after
       /\ Len(a) = i + Len(mid) + rest
       /\ SubSeq(a, 1, i) = SubSeq(b, 1, i)
       /\ SubSeq(a, i + 1, i + Len(mid)) = mid
       /\ SubSeq(a, Len(a) - rest + 1, Len(a)) = SubSeq(b, Len(b) - rest + 1, Len(b))

\* C8 witness: oldCode occurred twice, overlapping, and the call has been made
C8_Witness ==
  /\ applied.called
  /\ applied.before = File(<<"a", "a", "a">>)
  /\ applied.oldCode = <<"a", "a">>
  /\ applied.after = File(<<"a", "a">>)

\* C9 -- Missing fragment: when oldCode is not a substring of the file's
\* content, applyChanges throws, writes nothing, and the file is as before.
C9_MissingFragment ==
  (applied.called /\ applied.before.exists
     /\ Occurrences(applied.before.content, applied.oldCode) = {}) =>
    /\ applied.threw
    /\ ~applied.wrote
    /\ applied.after = applied.before
    /\ disk = applied.before

\* C9 witness: applyChanges was called with a fragment the file does not hold
C9_Witness ==
  /\ applied.called
  /\ applied.before = File(<<"a", "a", "b">>)
  /\ applied.oldCode = <<"b", "a">>
  /\ applied.threw

\* C10 -- runTests never throws: every call returned a TestResult, with
\* success = true exactly when a test command was found and the process exited
\* with status zero; a non-zero exit and a command that could not be run both
\* give success = false with stdout, a newline and stderr as output.
C10_RunTestsNeverThrows ==
  \A k \in DOMAIN testLog :
    LET t == testLog[k]
        found == t.man = "script"
    IN /\ ~t.result.threw
       /\ t.result.success <=> (found /\ t.proc.kind = "exit0")
       /\ (found /\ t.proc.kind \in {"nonzero", "spawnfail"}) =>
            t.result.output = <<t.proc.stdout, "\n", t.proc.stderr>>
       /\ result.message # "runTests"

\* C10 witness: the baseline command could not be run, the verification run
\* exited non-zero, and the run went on to its outcome
C10_Witness ==
  /\ Len(testLog) = 2
  /\ testLog[1].proc.kind = "spawnfail"
  /\ testLog[2].proc.kind = "nonzero"
  /\ Finished

\* C11 -- Test discovery: when package.json is absent, unreadable, not
\* parseable or declares no test script, runTests returns success = false,
\* output "No test command found" and command null without spawning a process;
\* when a test script is declared the command is 'npm test'.
C11_TestDiscovery ==
  /\ \A k \in DOMAIN testLog :
       LET t == testLog[k] IN
       /\ t.man # "script" =>
            /\ t.result = [threw |-> FALSE, success |-> FALSE,
                           output |-> <<"No test command found">>,
                           command |-> NoCommand, spawned |-> FALSE]
            /\ t.proc = NoProc
       /\ t.man = "script" => (t.result.command = "npm test" /\ t.result.spawned)
  /\ (manifest # "script") => calls["spawn"] = 0
  /\ (manifest = "script") => calls["spawn"] = calls["test"]

\* C11 witness: the manifest declares no test script, and both the baseline
\* and the verification run came back without a command
C11_Witness ==
  /\ manifest = "noscript"
  /\ Len(testLog) = 2
  /\ verify.command = NoCommand
  /\ verify.output = <<"No test command found">>
  /\ calls["spawn"] = 0

\* C12 -- External patch validation: getLLMPatch resolves to a patch only if
\* the response held a complete patch object whose file is relative, exists
\* and holds oldCode; a response that fails any of these resolves to null and
\* does not reject; a patch that is returned names its file by an absolute path.
C12_PatchValidation ==
  llmEvent.kind = "end" =>
    LET valid == /\ llmEvent.body = "complete"
                 /\ llmEvent.file \in {"target", "dotdot"}
                 /\ disk0.exists
                 /\ llmEvent.oldFound
    IN /\ llmRes.kind \in {"patch", "null"}
       /\ ~valid => llmRes.kind = "null"
       /\ llmRes.kind = "patch" =>
            /\ valid
            /\ llmRes.patch.file.absolute
            /\ llmRes.patch.oldCode # <<>>
            /\ llmRes.patch.newCode # <<>>
            /\ Occurrences(disk0.content, llmRes.patch.oldCode) # {}

\* C12 witness: a complete patch object for an existing file came back with
\* status 200, its oldCode is not in the file, and the run went on to needs_llm
C12_Witness ==
  /\ llmEvent.kind = "end"
  /\ llmEvent.status = 200
  /\ llmEvent.body = "complete"
  /\ llmEvent.file = "target"
  /\ disk0.exists
  /\ ~llmEvent.oldFound
  /\ llmRes.kind = "null"
  /\ result.status = "needs_llm"

\* C13 -- getLLMPatch always settles and never rejects: once called, its
\* promise is pending only while the request is out, and it settles resolved
\* (with a patch or null), never rejected; a timeout aborts the request and
\* resolves null.
C13_NeverRejects ==
  /\ calls["llm"] > 0 => llmRes.kind \in {"pending", "patch", "null"}
  /\ llmRes.kind = "pending" => pc = "llm_wait"
  /\ llmEvent.kind = "timeout" => (llmEvent.aborted /\ llmRes.kind = "null")

\* C14 -- getFallbackPatch never throws: it returns the complete patch when
\* the goal contains 'utils/date.js' and null otherwise, also when
\* utils/date.js is not in the repository.
C14_FallbackNeverThrows ==
  calls["fallback"] > 0 =>
    /\ fallbackRes.kind # "threw"
    /\ goalHasMarker => fallbackRes = [kind |-> "patch", patch |-> FallbackPatch]
    /\ ~goalHasMarker => fallbackRes.kind = "null"

\* scenario B: the goal holds no marker, no API credential is configured, and
\* the run came to its end after asking for the fallback patch
ScenarioB ==
  /\ Finished
  /\ ~goalHasMarker
  /\ ~apiKeySet
  /\ fallbackRes.kind = "null"
PlanAsPromised ==
  /\ result.plan.files >= 1
  /\ result.plan.files <= SliceLimit
  /\ result.plan.contents = result.plan.files
  /\ result.plan.testOutput = baseline.output
  /\ result.plan.goal = goalHasMarker

C16_ScenarioA ==
  (/\ Finished
   /\ goalHasMarker
   /\ applied.wrote
   /\ verify.success
   /\ calls["pushed"] = 1
   /\ prResult.called) =>
    /\ result.status = "success"
    /\ result.branchName = BranchName
    /\ result.prData.head = result.branchName
    /\ prResult.body.after = verify.output

\* C17 -- Exit status: the command-line process exits with status zero exactly
\* when the run ended in success; verify_failed, needs_llm, error and any
\* result it does not recognise exit non-zero.
C17_ExitStatus ==
  /\ cli.exited => (Finished /\ (cli.code = 0 <=> result.status = "success"))
  /\ \A st \in Statuses \cup {"unknown"} :
       ExitCode(st) = 0 <=> st = "success"

\* C17 witness: a run that ended needs_llm, and the process has exited with a
\* status other than zero
C17_Witness ==
  /\ cli.exited
  /\ result.status = "needs_llm"
  /\ cli.code # 0

\* C18 -- POST /run: the status field of the response is the terminal status
\* of the run behind it.
C18_HttpStatus == http.sent => http.status = result.status

\* the steps of a run in their order, when each has been invoked and when it
\* has completed
StepOrder ==
  <<"materialize", "baseline", "select", "apply", "verify", "branch", "commit",
    "push", "pr", "teardown">>
Invoked(step) ==
  CASE step = "materialize" -> calls["clone"] > 0
    [] step = "baseline" -> Len(testLog) >= 1
    [] step = "select" -> calls["fallback"] > 0
    [] step = "apply" -> applied.called
    [] step = "verify" -> Len(testLog) >= 2
    [] step = "branch" -> calls["branch"] > 0
    [] step = "commit" -> calls["commit"] > 0
    [] step = "push" -> calls["push"] > 0
    [] step = "pr" -> calls["pr"] > 0
    [] step = "teardown" -> calls["rm"] > 0
Completed(step) ==
  CASE step = "materialize" -> calls["cloned"] > 0
    [] step = "baseline" -> Len(testLog) >= 1 /\ ~testLog[1].result.threw
    [] step = "select" -> patch # NoPatch
    [] step = "apply" -> applied.wrote
    [] step = "verify" -> Len(testLog) >= 2 /\ ~testLog[2].result.threw
    [] step = "branch" -> calls["branched"] > 0
    [] step = "commit" -> calls["committed"] > 0
    [] step = "push" -> calls["pushed"] > 0
    [] step = "pr" -> prResult.called /\ ~prResult.threw
    [] step = "teardown" -> calls["rm"] > 0
OnceEach ==
  /\ \A o \in Ops \ {"test", "spawn"} : calls[o] <= 1
  /\ calls["test"] = Len(testLog)
  /\ Len(testLog) <= 2

\* C19 -- Pipeline order: each step takes place at most once, and a step has
\* been invoked only if every step before it in the order materialize,
\* baseline, select, apply, verify, branch, commit, push, pull request,
\* teardown has completed.
C19_PipelineOrder ==
  /\ OnceEach
  /\ \A i \in DOMAIN StepOrder :
       Invoked(StepOrder[i]) =>
         \A j \in 1..(i - 1) : Completed(StepOrder[j])

C21_ApplyFailureFatal ==
  (applied.called /\ applied.threw) =>
    /\ Finished
    /\ result.status = "error"
    /\ result.message = "Old code not found in file"
    /\ disk = applied.before
    /\ Len(testLog) = 1
    /\ \A op \in {"write", "branch", "commit", "push", "repoinfo", "pr",
                   "api", "plan"} : calls[op] = 0
    /\ ~prResult.called
    /\ patch.source = "fallback" =>
         (calls["llm"] = 0 /\ calls["request"] = 0 /\ llmRes = NotSettled)

\* C21 witness: the deterministic patch did not apply although an API key
\* was configured, and the run ended in error
C21_Witness ==
  /\ Finished
  /\ applied.called /\ applied.threw
  /\ patch.source = "fallback"
  /\ apiKeySet
  /\ result.status = "error"

\* C22 -- No remote mutation without success: a run that is over and has
\* pushed its branch has status success; a run that ended in error,
\* verify_failed or needs_llm has pushed nothing.
C22_PushOnlyOnSuccess ==
  (Finished /\ calls["pushed"] > 0) => result.status = "success"

\* C23 -- Plan failure condition: once generatePlan has been called, it threw
\* (the run ended in error) exactly when findRelevantFiles identified no
\* candidate file; with one candidate or more the run ended needs_llm with a
\* plan that lists the candidates.
C23_PlanThrowsIffNoCandidate ==
  (Finished /\ calls["plan"] > 0) =>
    LET found == FindRelevantFiles(repoShape) IN
    /\ result.status = "error" <=> found.count = 0
    /\ found.count >= 1 =>
         (result.status = "needs_llm" /\ result.plan.files = found.count)

\* C24 -- Candidate selection: when the path token of the goal exists in the
\* repository copy the candidates are that one file; otherwise they are the
\* first five (or fewer) of the .js files that listFiles found outside the
\* node_modules and .git directories, none of which is left out.
C24_CandidateSelection ==
  repoShape # UnreadShape =>
    LET found == FindRelevantFiles(repoShape) IN
    /\ repoShape.mentioned # "none" => (found.count = 1 /\ found.readable)
    /\ (repoShape.mentioned = "none" /\ repoShape.walk = "ok") =>
         found.count = Min(repoShape.jsFiles, SliceLimit)
    /\ (result.status = "needs_llm" /\ repoShape.mentioned = "none") =>
         result.plan.files = Min(repoShape.jsFiles, SliceLimit)

\* the terminal status as the outcomes of the steps other than the baseline
\* run determine it: materialization, patch selection, plan, apply,
\* verification, the git steps and the pull-request call
StatusWithoutBaseline ==
  IF calls["cloned"] = 0 THEN "error"
  ELSE IF fallbackRes.kind = "threw" THEN "error"
  ELSE IF patch = NoPatch
    THEN IF llmRes.kind = "rejected" THEN "error"
         ELSE IF GeneratePlan(repoShape, goalHasMarker, <<>>).threw
           THEN "error"
           ELSE "needs_llm"
  ELSE IF applied.threw THEN "error"
  ELSE IF ~verify.success THEN "verify_failed"
  ELSE IF calls["pushed"] = 0 \/ ~prResult.called \/ prResult.threw
    THEN "error"
    ELSE "success"

C26_BoundedNetworkCalls ==
  /\ llmEvent.kind = "timeout" => (llmEvent.aborted /\ llmRes.kind = "null")
  /\ prResult.api # "none" => "timeout" \in CurlOptions
  /\ prResult.api = "curl_failed" =>
       (~prResult.threw /\ (Finished => result.status = "success"))

\* a path that leads into the repository copy
InsideRepo(p) == p.absolute /\ p.rel \notin {"outside", "none"}

\* C27 -- Path confinement: a patch that getLLMPatch resolved with names a
\* file inside the repository copy, an answer whose relative path leaves the
\* repository copy is resolved with null, and no file outside the repository
\* copy is ever written.
C27_PathConfinement ==
  /\ llmRes.kind = "patch" => InsideRepo(llmRes.patch.file)
  /\ llmEvent.file = "dotdot" => llmRes.kind = "null"
  /\ applied.wrote => InsideRepo(patch.file)

\* C28 -- Commit message fidelity: when commitChanges has committed, the
\* message of the commit is the patch summary character for character, and
\* the shell has run no command besides git.
C28_CommitMessageVerbatim ==
  (commit.called /\ ~commit.threw) =>
    /\ commit.given = patch.summary
    /\ commit.message = patch.summary
    /\ commit.executed = <<>>

\* C29 -- Before/after report: in a run that ended in success the pull request
\* was created with the title 'Fix: ' and the patch summary, and with a body
\* that is the Summary section with the patch summary, the Changes section
\* with the base name of the patched file and the Test Results section with
\* the baseline output under Before and the verification output under After.
C29_BeforeAfterReport ==
  result.status = "success" =>
    /\ Payload(prResult.title, prResult.body).title = <<"Fix: ">> \o patch.summary
    /\ Payload(prResult.title, prResult.body).body =
         PRBodyText([summary |-> patch.summary, file |-> Basename(patch.file),
                     before |-> baseline.output, after |-> verify.output])

\* C30 -- Replacement text verbatim: whenever applyChanges wrote the file, the
\* new content is the old content up to the first occurrence of oldCode, then
\* newCode exactly as given ($ sequences included), then the old content
\* after that occurrence.
C30_NewCodeVerbatim ==
  applied.wrote =>
    LET b == applied.before.content
        i == FirstOccurrence(b, applied.oldCode)
    IN applied.after.content =
         SubSeq(b, 1, i) \o applied.newCode
           \o SubSeq(b, i + Len(applied.oldCode) + 1, Len(b))

\* C31 -- Workspace exclusivity: two runs that have made their workspace never
\* have the same workspace directory, so no run reads, writes or removes the
\* directory another run works in.
C31_WorkspaceExclusive ==
  \A r1, r2 \in RunIds :
    (r1 # r2 /\ runs[r1].state \notin {"none", "requested"}
             /\ runs[r2].state \notin {"none", "requested"}) =>
      runs[r1].workDir # runs[r2].workDir

\* C32 -- One response per request: the callback of runAgent is called at
\* most once and sendJSON at most once for a request, exactly once when the
\* child is done with (closed, or failed to start), and a request without a
\* usable repo or goal is answered with 400 and the agent is not started.
C32_OneResponse ==
  /\ http.callbacks <= 1
  /\ http.responses <= 1
  /\ (cli.exited \/ pc = "spawn_failed") => ENABLED Next \/ http.responses = 1
  /\ http.request \in Requests \ {"valid"} =>
       /\ pc = "rejected"
       /\ http.sent /\ http.code = 400 /\ http.callbacks = 0
       /\ \A op \in Ops : calls[op] = 0

\* C33 -- First event wins: once the promise of getLLMPatch is settled, no
\* later event changes its value (an accepted patch stays that patch, null
\* stays null), and the patch the run works with stays the one it was given.
C33_FirstEventWins ==
  [][/\ llmRes.kind \in {"patch", "null", "rejected"} => llmRes' = llmRes
     /\ patch # NoPatch => patch' = patch]_vars

\* C33 witness: the timeout fired after a response had been accepted as a
\* patch, and the promise still holds that patch
C33_Witness ==
  /\ llmEvent.kind = "end"
  /\ late = "timeout"
  /\ llmRes.kind = "patch"
  /\ patch = llmRes.patch

\* the two digits of a number below 100
TwoDigits(n) == <<DigitChars[(n \div 10) + 1], DigitChars[(n % 10) + 1]>>
IsDigit(c) == \E i \in 1..10 : DigitChars[i] = c

\* C34 -- Branch naming: the name createBranch makes is 'fix/', the four
\* digits of the year, two digits each of the month counted from one and of
\* the day, a hyphen, two digits each of hour, minute and second; when git
\* fails createBranch throws and neither commit nor push follows.
C34_BranchNaming ==
  probe.fn = "createBranch" =>
    LET b == probe.branchName
        t == probe.time IN
    /\ Len(b) = 19
    /\ SubSeq(b, 1, 4) = <<"f", "i", "x", "/">>
    /\ \A i \in (5..12) \cup (14..19) : IsDigit(b[i])
    /\ SubSeq(b, 5, 8) = TwoDigits(t.year \div 100) \o TwoDigits(t.year % 100)
    /\ SubSeq(b, 9, 10) = TwoDigits(t.month + 1)
    /\ SubSeq(b, 11, 12) = TwoDigits(t.date)
    /\ b[13] = "-"
    /\ SubSeq(b, 14, 15) = TwoDigits(t.hours)
    /\ SubSeq(b, 16, 17) = TwoDigits(t.minutes)
    /\ SubSeq(b, 18, 19) = TwoDigits(t.seconds)
    /\ probe.threw => probe.commits = 0 /\ probe.pushes = 0

\* C34 witness: a branch made in a month and at an hour and second of one
\* digit, committed and pushed
C34_Witness ==
  /\ probe.fn = "createBranch"
  /\ probe.time.month = 8
  /\ probe.time.hours = 0
  /\ probe.time.seconds = 9
  /\ probe.pushes = 1

\* C35 as stated -- for a remote of the https or the host:owner/name shape on
\* any host, with or without .git, getRepoInfo returns that owner and name;
\* for any other remote it throws.
C35_AnyHost ==
  (probe.fn = "getRepoInfo" /\ probe.gitOk) =>
    IF probe.remote.form \in {"https", "scp"}
      THEN /\ ~probe.threw
           /\ probe.owner = probe.remote.owner
           /\ probe.repo = probe.remote.name
      ELSE probe.threw

\* C35 -- Repository info parsing: for a remote https://github.com/owner/name
\* or git@github.com:owner/name, with or without a trailing .git, getRepoInfo
\* returns that owner and that name without the .git; for a remote that does
\* not hold github.com followed by a colon or a slash (the same shapes on
\* another host, a local path) and when git fails, it throws.
C35_GithubRemotes ==
  probe.fn = "getRepoInfo" =>
    IF probe.gitOk /\ probe.remote.host = GithubCom
      THEN /\ ~probe.threw
           /\ probe.owner = probe.remote.owner
           /\ probe.repo = probe.remote.name
      ELSE /\ probe.threw
           /\ probe.owner = <<>>
           /\ probe.repo = <<>>

\* C35 witness: the scp-like GitHub remote with .git gave owner and name
C35_Witness ==
  /\ probe.fn = "getRepoInfo"
  /\ probe.remote.form = "scp"
  /\ probe.remote.host = GithubCom
  /\ probe.remote.dotGit
  /\ ~probe.threw
  /\ probe.repo = <<"w", ".", "j", "s">>

\* a network URL: a leading http:// or https://, or the user@host: form (a
\* user, an at sign, a host, a colon, with no slash before the colon)
IsNetworkUrl(loc) ==
  \/ StartsWith(loc, Https)
  \/ StartsWith(loc, <<"h", "t", "t", "p", ":", "/", "/">>)
  \/ \E a, c \in 1..Len(loc) :
       /\ 1 < a
       /\ a + 1 < c
       /\ loc[a] = "@"
       /\ loc[c] = ":"
       /\ \A j \in 1..c : loc[j] # "/"

\* C36 -- Repository materialization: cloneRepository clones repoLocation
\* exactly when it is a network URL and copies it otherwise, and when the
\* clone or the copy fails no test run follows.
C36_CloneIffNetworkUrl ==
  (probe.fn = "cloneRepository" /\ probe.command # "none") =>
    /\ probe.command = "clone" <=> IsNetworkUrl(probe.repoUrl)
    /\ probe.command = "copy" <=> ~IsNetworkUrl(probe.repoUrl)
    /\ probe.threw => probe.tests = 0

====
